---- MODULE Spec2Model ----
(***************************************************************************)
(* A model of saioftp.FtpServer (src/saioftp.py): one FtpServer instance   *)
(* whose bound method `server` is the callback of every accepted control   *)
(* connection (start, line 418).  Each control connection runs `server` as *)
(* a cooperative task; tasks interleave only at the awaits that suspend    *)
(* (readline, read, awrite, sleep).  All attributes set in __init__ live   *)
(* on the one instance and are therefore single variables here.            *)
(*                                                                         *)
(* Strings are sequences of one-character strings.  Python's None is the   *)
(* sequence None (not a string of path characters).                        *)
(***************************************************************************)
EXTENDS Integers, Sequences, FiniteSets, TLC

\* ---------------------------------------------------------------- bounds
\* commands a client sends on its control connection
MaxCmds == 4
\* commands the clients of concurrent control connections send in all
MaxDuoCmds == 3
\* commands the one session of SpecWait sends
MaxWaitCmds == 2
\* data connections one client makes in all, where it connects more than once per PASV
MaxConn == 3
\* longest upload a client sends with STOR
MaxUpload == 3
\* number of distinct values os.urandom(1)[0] takes in the model (256 in the code)
MaxRand == 2
\* longest argument string of the path-resolution specification
MaxLen == 4
\* FtpServer.CHUNK_SIZE is 256; the model transfers in chunks of this size
CHUNK_SIZE == 2
\* FtpServer.PASV_RETRIES is 10; the model polls this many times
PASV_RETRIES == 2

\* ------------------------------------------------------ program constants
PortBase == 1024
PortMod == 64510

Sessions == {1, 2}

None == <<"None">>
SEP == "/"
TMP == <<".", "t", "m", "p">>

\* Python truthiness of an Optional[str]
Truthy(x) == x # None /\ x # <<>>

\* ------------------------------------------------------------ str helpers
StartsWithSep(s) == Len(s) > 0 /\ s[1] = SEP

\* str.replace('//', '/'): one left-to-right pass over non-overlapping matches
RECURSIVE ReplaceDouble(_)
ReplaceDouble(s) ==
    IF Len(s) < 2 THEN s
    ELSE IF s[1] = SEP /\ s[2] = SEP
         THEN <<SEP>> \o ReplaceDouble(SubSeq(s, 3, Len(s)))
         ELSE <<s[1]>> \o ReplaceDouble(Tail(s))

\* str.rstrip('/')
RECURSIVE RStrip(_)
RStrip(s) ==
    IF s = <<>> THEN s
    ELSE IF s[Len(s)] = SEP THEN RStrip(SubSeq(s, 1, Len(s) - 1))
    ELSE s

\* FtpServer.get_full_path (filename is a str)
get_full_path(cur, filename) ==
    LET path == IF StartsWithSep(filename) THEN filename
                ELSE IF cur # <<SEP>> THEN cur \o <<SEP>> \o filename
                ELSE <<SEP>> \o filename
    IN  RStrip(ReplaceDouble(path))

\* cmd_cwd lines 342-351: the directory CWD checks; path may be None or ''
CheckDir(cur, path) ==
    LET new_dir == IF Truthy(path) THEN path ELSE <<SEP>>
        check_dir == IF StartsWithSep(new_dir) THEN new_dir
                     ELSE IF cur # <<SEP>> THEN cur \o <<SEP>> \o new_dir
                     ELSE <<SEP>> \o new_dir
    IN  RStrip(ReplaceDouble(check_dir))

\* ------------------------------------------------------------- filesystem
(***************************************************************************)
(* The filesystem is a function from absolute paths to entries.  The root  *)
(* directory is not an entry: it always exists, as '/' and, where the      *)
(* platform resolves the empty path to it (rootAlias), as ''.  Paths are   *)
(* compared literally.  os calls succeed or raise by the state of the      *)
(* filesystem; the three places where the handlers themselves provide for  *)
(* an I/O error (the data read, the write to the temporary file, the       *)
(* rename, lines 238-261) additionally fail by choice of the environment.  *)
(***************************************************************************)
File(data) == [kind |-> "file", data |-> data]
Dir == [kind |-> "dir", data |-> <<>>]
\* a name os.listdir returns and os.stat raises for (a link to nothing)
Link == [kind |-> "link", data |-> <<>>]

RECURSIVE LastSep(_)
LastSep(p) == IF p = <<>> THEN 0
              ELSE IF p[Len(p)] = SEP THEN Len(p)
              ELSE LastSep(SubSeq(p, 1, Len(p) - 1))

Parent(p) == SubSeq(p, 1, LastSep(p) - 1)
BaseName(p) == SubSeq(p, LastSep(p) + 1, Len(p))

IsPrefix(a, b) == Len(a) <= Len(b) /\ SubSeq(b, 1, Len(a)) = a

IsFile(fsys, p) == p \in DOMAIN fsys /\ fsys[p].kind = "file"
IsRoot(alias, p) == p = <<SEP>> \/ (p = <<>> /\ alias)
IsDir(fsys, alias, p) == IsRoot(alias, p) \/ (p \in DOMAIN fsys /\ fsys[p].kind = "dir")

\* a new entry can be created at p: p names something inside an existing directory
CanCreate(fsys, p) ==
    /\ Len(p) >= 2
    /\ p[1] = SEP
    /\ BaseName(p) # <<>>
    /\ (Parent(p) = <<>> \/ IsDir(fsys, FALSE, Parent(p)))

\* os.stat(p) returns (does not raise)
StatOk(fsys, alias, p) == (p \in DOMAIN fsys /\ fsys[p].kind # "link") \/ IsRoot(alias, p)

\* os.remove(p): removes a file; raises otherwise
RemoveOk(fsys, p) == IsFile(fsys, p)
Remove(fsys, p) == [q \in (DOMAIN fsys) \ {p} |-> fsys[q]]

\* open(p, 'wb'): creates or truncates a file
OpenWOk(fsys, p) == CanCreate(fsys, p) /\ ~(p \in DOMAIN fsys /\ fsys[p].kind = "dir")
OpenW(fsys, p) == [q \in (DOMAIN fsys) \cup {p} |-> IF q = p THEN File(<<>>) ELSE fsys[q]]

\* f.write(data) on the file opened at p
WriteAtLast(fsys, p, data) ==
    IF IsFile(fsys, p)
    THEN [fsys EXCEPT ![p] = File(data)]
    ELSE fsys
WriteAt(fsys, p, data) ==
    IF IsFile(fsys, p)
    THEN [fsys EXCEPT ![p] = File(fsys[p].data \o data)]
    ELSE fsys

\* os.rename(src, dst): a file replaces a file; a directory moves with its subtree
InTree(src, q) == q = src \/ IsPrefix(src \o <<SEP>>, q)
RenameOk(fsys, src, dst) ==
    /\ src \in DOMAIN fsys
    /\ CanCreate(fsys, dst)
    /\ ~InTree(src, dst) \/ src = dst
    /\ dst \in DOMAIN fsys => (src = dst \/ (fsys[src].kind = "file" /\ fsys[dst].kind = "file"))
Moved(src, dst, q) == dst \o SubSeq(q, Len(src) + 1, Len(q))
Rename(fsys, src, dst) ==
    IF src = dst THEN fsys
    ELSE LET stay == {q \in DOMAIN fsys : ~InTree(src, q) /\ q # dst}
             go == {q \in DOMAIN fsys : InTree(src, q)}
         IN  [q \in stay \cup {Moved(src, dst, r) : r \in go} |->
                 IF q \in stay THEN fsys[q]
                 ELSE fsys[CHOOSE r \in go : Moved(src, dst, r) = q]]

\* os.listdir(d): the names in directory d, in the filesystem's enumeration order
ListDirOk(fsys, alias, d) == IsDir(fsys, alias, d)
DirKey(alias, d) == IF IsRoot(alias, d) THEN <<>> ELSE d
Children(fsys, alias, d) == {q \in DOMAIN fsys : Parent(q) = DirKey(alias, d)}
RECURSIVE Enumerate(_)
Enumerate(S) ==
    IF S = {} THEN <<>>
    ELSE LET q == CHOOSE x \in S : \A y \in S : Len(x) <= Len(y)
         IN  <<BaseName(q)>> \o Enumerate(S \ {q})
ListDir(fsys, alias, d) == Enumerate(Children(fsys, alias, d))

\* ------------------------------------------------------------------ state
VARIABLES
    fs,           \* the filesystem
    rootAlias,    \* the platform resolves '' to the root directory
    pasv_server,  \* FtpServer.pasv_server
    pasv_writer,  \* FtpServer.pasv_writer
    pasv_reader,  \* FtpServer.pasv_reader
    current_dir,  \* FtpServer.current_dir
    rename_from,  \* FtpServer.rename_from
    listeners,    \* the passive listening sockets that are open
    dataOpen,     \* the accepted data connections that are open
    pc,           \* each control task's position in FtpServer.server
    cmd,          \* the command each task read last
    ncmds,        \* how many commands each client has sent
    replies,      \* the replies sent for that command, in order
    tries,        \* the poll loop's iteration a task sleeps in
    files,        \* cmd_list: the names still to list
    f,            \* cmd_retr: the file object
    full_path,    \* cmd_stor: the temporary file's path
    srv,          \* cmd_pasv: the server being started
    announced,    \* client: the port of a 227 reply not yet connected to
    nconn,        \* client: data connections made so far
    recv,         \* client: bytes received on its data connection
    listing,      \* client: listing lines received on its data connection
    outq,         \* client: bytes of its upload still to be read by the server
    upload,       \* history: the upload of the client's last STOR
    storPre,      \* history: the target as it was when a STOR began
    storErr,      \* history: what made the last STOR fail
    ownRnfr,      \* history: the session's own RNFR is pending
    budget,       \* the number of commands the clients send in all
    r_pc, r_cwd, r_arg, r_out, r_out2   \* the path-resolution specification

instVars == <<pasv_server, pasv_writer, pasv_reader, current_dir, rename_from>>
sockVars == <<listeners, dataOpen>>
taskVars == <<pc, cmd, ncmds, replies, tries, files, f, full_path, srv>>
clientVars == <<announced, nconn, recv, listing, outq>>
histVars == <<upload, storPre, storErr, ownRnfr>>
pathVars == <<r_pc, r_cwd, r_arg, r_out, r_out2>>
vars == <<fs, rootAlias, budget, instVars, sockVars, taskVars, clientVars, histVars, pathVars>>

NoListener == [owner |-> 0, port |-> 0]
NoConn == [client |-> 0, k |-> 0, via |-> 0]
NoFile == [open |-> FALSE, data |-> <<>>, pos |-> 0]
NoCmd == [verb |-> "", arg |-> None]
Absent == [kind |-> "absent", data |-> <<>>]

Min(a, b) == IF a < b THEN a ELSE b
Last(q) == q[Len(q)]

\* what is at path p
EntryAt(fsys, p) == IF p \in DOMAIN fsys THEN fsys[p] ELSE Absent

\* the files and directories the device starts with
InitFs ==
    (<<SEP, "a">> :> File(<<1, 2, 3>>)) @@
    (<<SEP, "b">> :> File(<<4>>)) @@
    (<<SEP, "d">> :> Dir) @@
    (<<SEP, "l">> :> Link)

\* ------------------------------------------------------- the clients' inputs
SimpleVerbs == {"PWD", "XYZZY"}
CwdArgs == {None, <<"a">>, <<"d">>, <<"x">>}
RetrArgs == {<<"a">>, <<"b">>, <<"c">>, None}
StorArgs == {<<"a">>, <<"c">>, None}
DeleArgs == {<<"a">>}
RnfrArgs == {<<"a">>, <<"x">>}
RntoArgs == {<<"b">>, <<"c">>}
Uploads == {[i \in 1..n |-> 4 + i] : n \in 0..MaxUpload}

\* FtpServer.__init__, and no control connection yet
InitServer ==
    /\ fs = InitFs
    /\ rootAlias \in BOOLEAN
    /\ pasv_server = NoListener
    /\ pasv_writer = NoConn
    /\ pasv_reader = NoConn
    /\ current_dir = <<SEP>>
    /\ rename_from = None
    /\ listeners = {}
    /\ dataOpen = {}
    /\ pc = [s \in Sessions |-> "idle"]
    /\ cmd = [s \in Sessions |-> NoCmd]
    /\ ncmds = [s \in Sessions |-> 0]
    /\ replies = [s \in Sessions |-> <<>>]
    /\ tries = [s \in Sessions |-> 0]
    /\ files = [s \in Sessions |-> <<>>]
    /\ f = [s \in Sessions |-> NoFile]
    /\ full_path = [s \in Sessions |-> None]
    /\ srv = [s \in Sessions |-> NoListener]
    /\ announced = [s \in Sessions |-> 0]
    /\ nconn = [s \in Sessions |-> 0]
    /\ recv = [s \in Sessions |-> <<>>]
    /\ listing = [s \in Sessions |-> <<>>]
    /\ outq = [s \in Sessions |-> <<>>]
    /\ upload = [s \in Sessions |-> <<>>]
    /\ storPre = [s \in Sessions |-> Absent]
    /\ storErr = [s \in Sessions |-> "none"]
    /\ ownRnfr = [s \in Sessions |-> FALSE]

Init ==
    /\ InitServer
    /\ budget = MaxDuoCmds
    /\ r_pc = "off"
    /\ r_cwd = <<SEP>>
    /\ r_arg = <<>>
    /\ r_out = <<>>
    /\ r_out2 = <<>>

\* ------------------------------------------------------------ FtpServer.close
CloseConnKept(open, w) == open
CloseConn(open, w) == IF w # NoConn THEN open \ {w} ELSE open
CloseListenerKept(ls, sv) == ls
CloseListener(ls, sv) == IF sv # NoListener THEN ls \ {sv} ELSE ls

\* close(): the writer and reader are dropped together, then the server
close ==
    /\ dataOpen' = CloseConn(dataOpen, pasv_writer)
    /\ pasv_writer' = NoConn
    /\ pasv_reader' = (IF pasv_writer # NoConn THEN NoConn ELSE pasv_reader)
    /\ listeners' = CloseListener(listeners, pasv_server)
    /\ pasv_server' = NoListener

\* the end of a transfer (lines 125-136, 187-198, 266-277): the same two steps
CloseAfterTransfer ==
    /\ dataOpen' = CloseConn(dataOpen, pasv_writer)
    /\ pasv_writer' = NoConn
    /\ pasv_reader' = (IF pasv_writer # NoConn THEN NoConn ELSE pasv_reader)
    /\ listeners' = CloseListener(listeners, pasv_server)
    /\ pasv_server' = NoListener

chanVars == <<pasv_server, pasv_writer, pasv_reader, listeners, dataOpen>>

\* ------------------------------------------------------------------ helpers
SetPc(s, v) == pc' = [pc EXCEPT ![s] = v]
Say(s, r0, text) == replies' = [replies EXCEPT ![s] = Append(r0, text)]
RECURSIVE Sum(_, _)
Sum(g, S) == IF S = {} THEN 0 ELSE LET x == CHOOSE y \in S : TRUE IN g[x] + Sum(g, S \ {x})
ReadingEarly(s) == pc[s] \in {"read", "wait"} /\ Sum(ncmds, Sessions) < budget
Reading(s) == pc[s] = "read" /\ Sum(ncmds, Sessions) < budget
\* the task reads command c: the client has sent it, with its upload if it is a STOR
Read(s, c, u) ==
    /\ cmd' = [cmd EXCEPT ![s] = c]
    /\ ncmds' = [ncmds EXCEPT ![s] = @ + 1]
    /\ outq' = [outq EXCEPT ![s] = u]
    /\ upload' = [upload EXCEPT ![s] = IF c.verb = "STOR" THEN u ELSE @]

\* ------------------------------------------------- FtpServer.server: the loop
\* a control connection is accepted: 220, then the first readline
Accept(s) ==
    /\ pc[s] = "idle"
    /\ SetPc(s, "read")
    /\ Say(s, <<>>, "220 Welcome.")
    /\ UNCHANGED <<fs, rootAlias, budget, instVars, sockVars, cmd, ncmds, tries, files, f,
                   full_path, srv, clientVars, histVars, pathVars>>

\* str(current_dir) inside f'257 "{self.current_dir}"': the characters in a row
RECURSIVE Text(_)
Text(q) == IF q = <<>> THEN "" ELSE Head(q) \o Text(Tail(q))

SimpleReply(verb) ==
    CASE verb = "USER" -> "230 Logged in."
      [] verb = "PASS" -> "230 Logged in."
      [] verb = "SYST" -> "215 UNIX Type: L8"
      [] verb = "FEAT" -> "211-Features: 211 End"
      [] verb = "TYPE" -> "200 OK."
      [] verb = "PWD" -> "257 \"" \o Text(current_dir) \o "\""
      [] OTHER -> "502 Command not implemented."

\* USER, PASS, SYST, FEAT, TYPE, PWD and unknown verbs: one reply
CmdSimple(s) ==
    /\ Reading(s)
    /\ \E v \in SimpleVerbs :
        /\ Read(s, [verb |-> v, arg |-> None], <<>>)
        /\ Say(s, <<>>, SimpleReply(v))
    /\ UNCHANGED <<fs, rootAlias, budget, instVars, sockVars, pc, tries, files, f, full_path, srv,
                   announced, nconn, recv, listing, storPre, storErr, ownRnfr, pathVars>>

\* QUIT: 221, the loop ends, the control connection is closed
CmdQuit(s) ==
    /\ Reading(s)
    /\ Read(s, [verb |-> "QUIT", arg |-> None], <<>>)
    /\ Say(s, <<>>, "221 Goodbye.")
    /\ SetPc(s, "closed")
    /\ UNCHANGED <<fs, rootAlias, budget, instVars, sockVars, tries, files, f, full_path, srv,
                   announced, nconn, recv, listing, storPre, storErr, ownRnfr, pathVars>>

\* readline returns b'': the peer has closed; the loop ends
PeerClose(s) ==
    /\ pc[s] = "read"
    /\ SetPc(s, "closed")
    /\ UNCHANGED <<fs, rootAlias, budget, instVars, sockVars, cmd, ncmds, replies, tries, files, f,
                   full_path, srv, clientVars, histVars, pathVars>>

\* ---------------------------------------------------------- FtpServer.cmd_cwd
CwdAlwaysChanges(cur, check_dir, ok) == check_dir
CwdResult(cur, check_dir, ok) == IF ok THEN check_dir ELSE cur

CmdCwd(s) ==
    /\ Reading(s)
    /\ \E a \in CwdArgs :
        LET check_dir == CheckDir(current_dir, a)
            ok == StatOk(fs, rootAlias, check_dir)
        IN  /\ Read(s, [verb |-> "CWD", arg |-> a], <<>>)
            /\ current_dir' = CwdResult(current_dir, check_dir, ok)
            /\ Say(s, <<>>, IF ok THEN "250 OK." ELSE "550 Failed.")
    /\ UNCHANGED <<fs, rootAlias, budget, pasv_server, pasv_writer, pasv_reader, rename_from,
                   sockVars, pc, tries, files, f, full_path, srv,
                   announced, nconn, recv, listing, storPre, storErr, ownRnfr, pathVars>>

\* --------------------------------------------------------- FtpServer.cmd_pasv
PasvPort(b) == PortBase + (b % PortMod)

\* close(), the port, and the bind inside start_server; a bind that fails (the
\* port is in use, or the environment refuses it) raises out of cmd_pasv and
\* out of server: the task ends with the control connection left as it is.
\* A client that sends PASV no longer connects to the port of an earlier 227.
CmdPasv(s) ==
    /\ Reading(s)
    /\ Read(s, [verb |-> "PASV", arg |-> None], <<>>)
    /\ replies' = [replies EXCEPT ![s] = <<>>]
    /\ pasv_writer' = NoConn
    /\ pasv_reader' = (IF pasv_writer # NoConn THEN NoConn ELSE pasv_reader)
    /\ pasv_server' = NoListener
    /\ dataOpen' = CloseConn(dataOpen, pasv_writer)
    /\ \E b \in 0..(MaxRand - 1), bindOk \in BOOLEAN :
        LET left == CloseListener(listeners, pasv_server)
            l == [owner |-> s, port |-> PasvPort(b)]
        IN  IF bindOk /\ \A x \in left : x.port # l.port
            THEN /\ listeners' = left \cup {l}
                 /\ srv' = [srv EXCEPT ![s] = l]
                 /\ SetPc(s, "pasv_start")
            ELSE /\ listeners' = left
                 /\ srv' = srv
                 /\ SetPc(s, "dead")
    /\ announced' = [announced EXCEPT ![s] = 0]
    /\ UNCHANGED <<fs, rootAlias, budget, current_dir, rename_from, tries, files, f, full_path,
                   nconn, recv, listing, storPre, storErr, ownRnfr, pathVars>>

\* start_server returns: the server is stored and 227 names its port
PasvReply(s) ==
    /\ pc[s] = "pasv_start"
    /\ pasv_server' = srv[s]
    /\ srv' = [srv EXCEPT ![s] = NoListener]
    /\ announced' = [announced EXCEPT ![s] = srv[s].port]
    /\ Say(s, replies[s], "227 Entering Passive Mode")
    /\ SetPc(s, "read")
    /\ UNCHANGED <<fs, rootAlias, budget, pasv_writer, pasv_reader, current_dir, rename_from,
                   sockVars, cmd, ncmds, tries, files, f, full_path,
                   nconn, recv, listing, outq, histVars, pathVars>>

\* cmd_pasv.handle_pasv_connection: the client connects to the port of its 227
\* reply while some listener is bound to it
DataConnect(s) ==
    /\ pc[s] \notin {"idle", "closed"}
    /\ announced[s] # 0
    /\ \E l \in listeners :
        /\ l.port = announced[s]
        /\ LET c == [client |-> s, k |-> nconn[s] + 1, via |-> l.owner]
           IN  /\ pasv_reader' = c
               /\ pasv_writer' = c
               /\ dataOpen' = dataOpen \cup {c}
    /\ nconn' = [nconn EXCEPT ![s] = @ + 1]
    /\ announced' = [announced EXCEPT ![s] = 0]
    /\ recv' = [recv EXCEPT ![s] = <<>>]
    /\ listing' = [listing EXCEPT ![s] = <<>>]
    /\ UNCHANGED <<fs, rootAlias, budget, pasv_server, current_dir, rename_from, listeners,
                   taskVars, outq, histVars, pathVars>>

\* the server started at line 71 accepts for as long as it is open: a further
\* connection to the port of the same 227 reply runs handle_pasv_connection
\* again, which stores the new streams over the ones a transfer may be using
DataReconnect(s) ==
    /\ pc[s] \notin {"idle", "closed"}
    /\ pasv_server \in listeners
    /\ pasv_server.owner = s
    /\ pasv_writer # NoConn
    /\ nconn[s] < MaxConn
    /\ LET c == [client |-> s, k |-> nconn[s] + 1, via |-> s]
       IN  /\ pasv_reader' = c
           /\ pasv_writer' = c
           /\ dataOpen' = dataOpen \cup {c}
    /\ nconn' = [nconn EXCEPT ![s] = @ + 1]
    /\ UNCHANGED <<fs, rootAlias, budget, pasv_server, current_dir, rename_from, listeners,
                   taskVars, announced, recv, listing, outq, histVars, pathVars>>

\* -------------------------------------------- LIST, RETR, STOR: the data phase
\* "425 Use PASV first." and return (lines 80-83, 149-152, 213-216)
UsePasvFirst(s) ==
    /\ Say(s, <<>>, "425 Use PASV first.")
    /\ UNCHANGED <<fs, chanVars, pc, tries, files, f, full_path, recv, listing,
                   storPre, storErr>>

\* the poll loop sleeps in iteration t
SleepUncounted(s, r0, t) ==
    /\ SetPc(s, "wait")
    /\ tries' = [tries EXCEPT ![s] = 0]
    /\ replies' = [replies EXCEPT ![s] = r0]
    /\ UNCHANGED <<fs, chanVars, files, f, full_path, recv, listing, storPre, storErr>>
Sleep(s, r0, t) ==
    /\ SetPc(s, "wait")
    /\ tries' = [tries EXCEPT ![s] = t]
    /\ replies' = [replies EXCEPT ![s] = r0]
    /\ UNCHANGED <<fs, chanVars, files, f, full_path, recv, listing, storPre, storErr>>

\* the loop has ended and there is still no writer
TimedOut(s, r0) ==
    /\ SetPc(s, "read")
    /\ tries' = [tries EXCEPT ![s] = 0]
    /\ Say(s, r0, "425 Data connection failed.")
    /\ UNCHANGED <<fs, chanVars, files, f, full_path, recv, listing, storPre, storErr>>

\* cmd_list, lines 96-98
BeginList(s, r0) ==
    /\ SetPc(s, "list_open")
    /\ tries' = [tries EXCEPT ![s] = 0]
    /\ Say(s, r0, "150 Here comes the directory listing.")
    /\ UNCHANGED <<fs, chanVars, files, f, full_path, recv, listing, storPre, storErr>>

\* cmd_retr, lines 165-171 and the handler of 204-209 for a failing open
BeginRetr(s, c, r0) ==
    /\ tries' = [tries EXCEPT ![s] = 0]
    /\ IF c.arg # None /\ IsFile(fs, get_full_path(current_dir, c.arg))
       THEN /\ f' = [f EXCEPT ![s] = [open |-> TRUE,
                                      data |-> fs[get_full_path(current_dir, c.arg)].data,
                                      pos |-> 0]]
            /\ Say(s, r0, "150 Opening data connection.")
            /\ SetPc(s, "retr_loop")
            /\ UNCHANGED chanVars
       ELSE /\ f' = f
            /\ Say(s, r0, "550 Failed.")
            /\ close
            /\ SetPc(s, "read")
    /\ UNCHANGED <<fs, files, full_path, recv, listing, storPre, storErr>>

\* STOR's handler, lines 286-289: the temporary file is removed, errors ignored
StorCleanupSkipped(fsys, p) == fsys
StorCleanup(fsys, p) == IF RemoveOk(fsys, p) THEN Remove(fsys, p) ELSE fsys

\* cmd_stor, lines 229-236 and the handler of 283-293 for a failing open;
\* filename + '.tmp' is outside the try: with no argument it raises out of
\* cmd_stor and out of server
BeginStor(s, c, r0) ==
    /\ tries' = [tries EXCEPT ![s] = 0]
    /\ IF c.arg = None
       THEN /\ SetPc(s, "dead")
            /\ replies' = [replies EXCEPT ![s] = r0]
            /\ UNCHANGED <<fs, chanVars, full_path, storPre, storErr>>
       ELSE LET tmp == get_full_path(current_dir, c.arg \o TMP)
            IN  /\ full_path' = [full_path EXCEPT ![s] = tmp]
                /\ storPre' = [storPre EXCEPT ![s] =
                                  EntryAt(fs, get_full_path(current_dir, c.arg))]
                /\ IF OpenWOk(fs, tmp)
                   THEN /\ fs' = OpenW(fs, tmp)
                        /\ Say(s, r0, "150 Ok to send data.")
                        /\ SetPc(s, "stor_loop")
                        /\ storErr' = [storErr EXCEPT ![s] = "none"]
                        /\ UNCHANGED chanVars
                   ELSE /\ fs' = StorCleanup(fs, tmp)
                        /\ Say(s, r0, "550 Failed.")
                        /\ close
                        /\ SetPc(s, "read")
                        /\ storErr' = [storErr EXCEPT ![s] = "open"]
    /\ UNCHANGED <<files, f, recv, listing>>

\* iteration t of "for _ in range(PASV_RETRIES)" and what follows the loop
\* (lines 85-94, 154-163, 218-227 are the same text)
DataPhase(s, c, r0, t) ==
    IF pasv_writer # NoConn
    THEN CASE c.verb = "LIST" -> BeginList(s, r0)
           [] c.verb = "RETR" -> BeginRetr(s, c, r0)
           [] c.verb = "STOR" -> BeginStor(s, c, r0)
    ELSE IF t < PASV_RETRIES THEN Sleep(s, r0, t)
    ELSE TimedOut(s, r0)

\* a data command is read and runs to its first suspension
DataCommand(s, c, u) ==
    /\ Reading(s)
    /\ Read(s, c, u)
    /\ IF pasv_server = NoListener THEN UsePasvFirst(s) ELSE DataPhase(s, c, <<>>, 0)
    /\ UNCHANGED <<rootAlias, budget, current_dir, rename_from, srv, announced, nconn, ownRnfr,
                   pathVars>>

CmdList(s) == DataCommand(s, [verb |-> "LIST", arg |-> None], <<>>)
CmdRetr(s) == \E a \in RetrArgs : DataCommand(s, [verb |-> "RETR", arg |-> a], <<>>)
CmdStor(s) == \E a \in StorArgs, u \in Uploads : DataCommand(s, [verb |-> "STOR", arg |-> a], u)

\* asyncio.sleep(PASV_WAIT) returns: the next iteration, or the end of the loop
PollPasv(s) ==
    /\ pc[s] = "wait"
    /\ DataPhase(s, cmd[s], replies[s], tries[s] + 1)
    /\ UNCHANGED <<rootAlias, budget, current_dir, rename_from, cmd, ncmds, srv,
                   announced, nconn, outq, upload, ownRnfr, pathVars>>

\* --------------------------------------------------------- FtpServer.cmd_list
\* lines 106-113 succeed for this name: its stat returns and there is a writer
Listable(name) ==
    /\ StatOk(fs, rootAlias, get_full_path(current_dir, name))
    /\ pasv_writer # NoConn

\* the line written for a name (type, size, name)
ListLine(name) ==
    LET e == EntryAt(fs, get_full_path(current_dir, name))
    IN  [name |-> name, size |-> Len(e.data), is_dir |-> (e.kind # "file")]

\* "except ... continue" (lines 117-119) does not suspend: names are passed
\* over up to the first that is listed
SkipNone(names) == names
RECURSIVE SkipFailing(_)
SkipFailing(names) ==
    IF names = <<>> THEN <<>>
    ELSE IF Listable(Head(names)) THEN names
    ELSE SkipFailing(Tail(names))

\* the for loop from `names` on, up to the next suspension
ListStep(s, names) ==
    LET rest == SkipFailing(names)
    IN  IF rest = <<>>
        THEN /\ SetPc(s, "list_close")
             /\ files' = [files EXCEPT ![s] = <<>>]
             /\ listing' = listing
        ELSE /\ SetPc(s, "list_send")
             /\ files' = [files EXCEPT ![s] = Tail(rest)]
             /\ listing' = [listing EXCEPT ![pasv_writer.client] =
                               Append(@, ListLine(Head(rest)))]

\* os.listdir(current_dir), then the first names (lines 100-115; 142-145 on failure)
ListOpen(s) ==
    /\ pc[s] = "list_open"
    /\ IF ListDirOk(fs, rootAlias, current_dir)
       THEN /\ ListStep(s, ListDir(fs, rootAlias, current_dir))
            /\ UNCHANGED <<chanVars, replies>>
       ELSE /\ Say(s, replies[s], "550 Failed.")
            /\ close
            /\ SetPc(s, "read")
            /\ UNCHANGED <<files, listing>>
    /\ UNCHANGED <<fs, rootAlias, budget, current_dir, rename_from, cmd, ncmds, tries, f, full_path,
                   srv, announced, nconn, recv, outq, histVars, pathVars>>

\* the names that follow
ListNext(s) ==
    /\ pc[s] = "list_send"
    /\ ListStep(s, files[s])
    /\ UNCHANGED <<fs, rootAlias, budget, instVars, sockVars, cmd, ncmds, replies, tries, f,
                   full_path, srv, announced, nconn, recv, outq, histVars, pathVars>>

\* after sleep(CLOSE_WAIT): lines 125-140
ListClose(s) ==
    /\ pc[s] = "list_close"
    /\ CloseAfterTransfer
    /\ Say(s, replies[s], "226 Directory send OK.")
    /\ SetPc(s, "read")
    /\ UNCHANGED <<fs, rootAlias, budget, current_dir, rename_from, cmd, ncmds, tries, files, f,
                   full_path, srv, clientVars, histVars, pathVars>>

\* --------------------------------------------------------- FtpServer.cmd_retr
\* one turn of "while True" (lines 173-182); a write with no writer raises and
\* is handled at 204-209
RetrChunk(s) ==
    /\ pc[s] = "retr_loop"
    /\ LET n == Min(CHUNK_SIZE, Len(f[s].data) - f[s].pos)
       IN  IF n = 0
           THEN /\ f' = [f EXCEPT ![s].open = FALSE]
                /\ SetPc(s, "retr_close")
                /\ UNCHANGED <<chanVars, replies, recv>>
           ELSE IF pasv_writer # NoConn
           THEN /\ recv' = [recv EXCEPT ![pasv_writer.client] =
                               @ \o SubSeq(f[s].data, f[s].pos + 1, f[s].pos + n)]
                /\ f' = [f EXCEPT ![s].pos = @ + n]
                /\ UNCHANGED <<chanVars, replies, pc>>
           ELSE /\ Say(s, replies[s], "550 Failed.")
                /\ f' = [f EXCEPT ![s].open = FALSE]
                /\ close
                /\ SetPc(s, "read")
                /\ recv' = recv
    /\ UNCHANGED <<fs, rootAlias, budget, current_dir, rename_from, cmd, ncmds, tries, files,
                   full_path, srv, announced, nconn, listing, outq, histVars, pathVars>>

\* after sleep(CLOSE_WAIT): lines 187-202
RetrClose(s) ==
    /\ pc[s] = "retr_close"
    /\ CloseAfterTransfer
    /\ Say(s, replies[s], "226 Transfer complete.")
    /\ SetPc(s, "read")
    /\ UNCHANGED <<fs, rootAlias, budget, current_dir, rename_from, cmd, ncmds, tries, files, f,
                   full_path, srv, clientVars, histVars, pathVars>>

\* --------------------------------------------------------- FtpServer.cmd_stor
\* the client's data connection is at end of stream
Eof(c) == outq[c] = <<>> /\ (cmd[c].verb = "STOR" \/ pc[c] \in {"idle", "closed"})

\* the handler of lines 283-293, entered with the filesystem as fsys
StorFail(s, fsys, err) ==
    /\ fs' = StorCleanup(fsys, full_path[s])
    /\ Say(s, replies[s], "550 Failed.")
    /\ close
    /\ SetPc(s, "read")
    /\ storErr' = [storErr EXCEPT ![s] = err]

\* read returns 1..CHUNK_SIZE bytes and f.write stores them, or raises
StorRecv(s) ==
    /\ pc[s] = "stor_loop"
    /\ pasv_reader # NoConn
    /\ outq[pasv_reader.client] # <<>>
    /\ LET c == pasv_reader.client
           q == outq[c]
       IN  \E k \in 1..Min(CHUNK_SIZE, Len(q)), writeOk \in BOOLEAN :
             /\ outq' = [outq EXCEPT ![c] = SubSeq(q, k + 1, Len(q))]
             /\ IF writeOk
                THEN /\ fs' = WriteAt(fs, full_path[s], SubSeq(q, 1, k))
                     /\ UNCHANGED <<chanVars, pc, replies, storErr>>
                ELSE StorFail(s, fs, "write")
    /\ UNCHANGED <<rootAlias, budget, current_dir, rename_from, cmd, ncmds, tries, files, f,
                   full_path, srv, announced, nconn, recv, listing, upload, storPre,
                   ownRnfr, pathVars>>

\* read raises: the connection is broken, or there is no reader any more
StorReadError(s) ==
    /\ pc[s] = "stor_loop"
    /\ StorFail(s, fs, "read")
    /\ UNCHANGED <<rootAlias, budget, current_dir, rename_from, cmd, ncmds, tries, files, f,
                   full_path, srv, clientVars, upload, storPre, ownRnfr, pathVars>>

\* lines 254-257: the target is removed, errors ignored
RemoveTarget(fsys, final) == IF RemoveOk(fsys, final) THEN Remove(fsys, final) ELSE fsys

\* read returns b'': close, remove the target, rename (lines 247-261); the
\* rename raises by the state of the filesystem or of the device
StorEof(s) ==
    /\ pc[s] = "stor_loop"
    /\ pasv_reader # NoConn
    /\ Eof(pasv_reader.client)
    /\ LET final == get_full_path(current_dir, cmd[s].arg)
           fs1 == RemoveTarget(fs, final)
       IN  \E renameOk \in BOOLEAN :
             IF renameOk /\ RenameOk(fs1, full_path[s], final)
             THEN /\ fs' = Rename(fs1, full_path[s], final)
                  /\ SetPc(s, "stor_close")
                  /\ UNCHANGED <<chanVars, replies, storErr>>
             ELSE StorFail(s, fs1, "rename")
    /\ UNCHANGED <<rootAlias, budget, current_dir, rename_from, cmd, ncmds, tries, files, f,
                   full_path, srv, clientVars, upload, storPre, ownRnfr, pathVars>>

\* after sleep(CLOSE_WAIT): lines 266-281
StorClose(s) ==
    /\ pc[s] = "stor_close"
    /\ CloseAfterTransfer
    /\ Say(s, replies[s], "226 Transfer complete.")
    /\ SetPc(s, "read")
    /\ UNCHANGED <<fs, rootAlias, budget, current_dir, rename_from, cmd, ncmds, tries, files, f,
                   full_path, srv, clientVars, histVars, pathVars>>

\* --------------------------------------------------------- FtpServer.cmd_dele
\* os.remove, then sleep(PAUSE); with no argument get_full_path raises inside the try
CmdDele(s) ==
    /\ Reading(s)
    /\ \E a \in DeleArgs :
        /\ Read(s, [verb |-> "DELE", arg |-> a], <<>>)
        /\ IF a # None /\ RemoveOk(fs, get_full_path(current_dir, a))
           THEN /\ fs' = Remove(fs, get_full_path(current_dir, a))
                /\ replies' = [replies EXCEPT ![s] = <<>>]
                /\ SetPc(s, "dele_reply")
           ELSE /\ fs' = fs
                /\ Say(s, <<>>, "550 Failed.")
                /\ pc' = pc
    /\ UNCHANGED <<rootAlias, budget, instVars, sockVars, tries, files, f, full_path, srv,
                   announced, nconn, recv, listing, storPre, storErr, ownRnfr, pathVars>>

DeleReply(s) ==
    /\ pc[s] = "dele_reply"
    /\ Say(s, replies[s], "250 File deleted.")
    /\ SetPc(s, "read")
    /\ UNCHANGED <<fs, rootAlias, budget, instVars, sockVars, cmd, ncmds, tries, files, f,
                   full_path, srv, clientVars, histVars, pathVars>>

\* --------------------------------------------------------- FtpServer.cmd_rnfr
CmdRnfr(s) ==
    /\ Reading(s)
    /\ \E a \in RnfrArgs :
        /\ Read(s, [verb |-> "RNFR", arg |-> a], <<>>)
        /\ IF a # None /\ StatOk(fs, rootAlias, get_full_path(current_dir, a))
           THEN /\ rename_from' = get_full_path(current_dir, a)
                /\ Say(s, <<>>, "350 Ready for destination name.")
                /\ ownRnfr' = [ownRnfr EXCEPT ![s] = TRUE]
           ELSE /\ rename_from' = rename_from
                /\ Say(s, <<>>, "550 File not found.")
                /\ ownRnfr' = ownRnfr
    /\ UNCHANGED <<fs, rootAlias, budget, pasv_server, pasv_writer, pasv_reader, current_dir,
                   sockVars, pc, tries, files, f, full_path, srv,
                   announced, nconn, recv, listing, storPre, storErr, pathVars>>

\* --------------------------------------------------------- FtpServer.cmd_rnto
\* the `finally` of lines 337-338: rename_from after an RNTO that found a source
RntoFinallyOnSuccess(src, renamed) == IF renamed THEN None ELSE src
RntoFinally(src, renamed) == None

\* 503 and return when rename_from is falsy; else the rename, and in `finally`
\* rename_from = None
CmdRnto(s) ==
    /\ Reading(s)
    /\ \E a \in RntoArgs, renameOk \in BOOLEAN :
        /\ Read(s, [verb |-> "RNTO", arg |-> a], <<>>)
        /\ IF ~Truthy(rename_from)
           THEN /\ Say(s, <<>>, "503 Bad sequence of commands.")
                /\ UNCHANGED <<fs, rename_from>>
           ELSE LET renamed == /\ a # None
                               /\ renameOk
                               /\ RenameOk(fs, rename_from, get_full_path(current_dir, a))
                IN  /\ rename_from' = RntoFinally(rename_from, renamed)
                    /\ IF renamed
                       THEN /\ fs' = Rename(fs, rename_from, get_full_path(current_dir, a))
                            /\ Say(s, <<>>, "250 File renamed.")
                       ELSE /\ fs' = fs
                            /\ Say(s, <<>>, "550 Rename failed.")
    /\ ownRnfr' = [ownRnfr EXCEPT ![s] = FALSE]
    /\ UNCHANGED <<rootAlias, budget, pasv_server, pasv_writer, pasv_reader, current_dir,
                   sockVars, pc, tries, files, f, full_path, srv,
                   announced, nconn, recv, listing, storPre, storErr, pathVars>>

\* ------------------------------------------------------------ specifications
Step(s) ==
    \/ Accept(s)
    \/ CmdSimple(s)
    \/ CmdCwd(s)
    \/ CmdPasv(s)
    \/ PasvReply(s)
    \/ DataConnect(s)
    \/ CmdList(s)
    \/ CmdRetr(s)
    \/ CmdStor(s)
    \/ PollPasv(s)
    \/ ListOpen(s)
    \/ ListNext(s)
    \/ ListClose(s)
    \/ RetrChunk(s)
    \/ RetrClose(s)
    \/ StorRecv(s)
    \/ StorReadError(s)
    \/ StorEof(s)
    \/ StorClose(s)
    \/ CmdDele(s)
    \/ DeleReply(s)
    \/ CmdRnfr(s)
    \/ CmdRnto(s)
    \/ CmdQuit(s)
    \/ PeerClose(s)

\* any number of control connections, served concurrently
Next == \E s \in Sessions : Step(s)
Spec == Init /\ [][Next]_vars

\* one control connection
InitSolo ==
    /\ InitServer
    /\ budget = MaxCmds
    /\ r_pc = "off"
    /\ r_cwd = <<SEP>>
    /\ r_arg = <<>>
    /\ r_out = <<>>
    /\ r_out2 = <<>>
NextSolo == Step(1)
SpecSolo == InitSolo /\ [][NextSolo]_vars

\* one session whose client may connect to a passive port more than once
NextPeer == Step(1) \/ DataReconnect(1)
SpecPeer == InitSolo /\ [][NextPeer]_vars

\* one session that sends MaxWaitCmds commands; asyncio.sleep(PASV_WAIT) returns:
\* the event loop resumes a task whose sleep is over
InitWait ==
    /\ InitServer
    /\ budget = MaxWaitCmds
    /\ r_pc = "off"
    /\ r_cwd = <<SEP>>
    /\ r_arg = <<>>
    /\ r_out = <<>>
    /\ r_out2 = <<>>
SpecWait == InitWait /\ [][NextSolo]_vars /\ WF_vars(PollPasv(1))

\* ------------------------------------------ path resolution, on its own
\* get_full_path applied to an argument, and again to its own result
Chars == {SEP, "a"}
Strs == UNION {[1..k -> Chars] : k \in 0..MaxLen}
\* working directories a session can be in: '/', '' where the platform takes
\* it for the root, and directories below the root
Cwds == {<<SEP>>, <<>>, <<SEP, "a">>, <<SEP, "a", SEP, "a">>}

InitPath ==
    /\ InitServer
    /\ budget = 0
    /\ r_pc = "arg"
    /\ r_cwd \in Cwds
    /\ r_cwd = <<>> => rootAlias
    /\ r_arg \in Strs
    /\ r_out = <<>>
    /\ r_out2 = <<>>

Resolve ==
    /\ r_pc = "arg"
    /\ r_out' = get_full_path(r_cwd, r_arg)
    /\ r_pc' = "once"
    /\ UNCHANGED <<fs, rootAlias, budget, instVars, sockVars, taskVars, clientVars,
                   histVars, r_cwd, r_arg, r_out2>>

ResolveAgain ==
    /\ r_pc = "once"
    /\ r_out2' = get_full_path(r_cwd, r_out)
    /\ r_pc' = "twice"
    /\ UNCHANGED <<fs, rootAlias, budget, instVars, sockVars, taskVars, clientVars,
                   histVars, r_cwd, r_arg, r_out>>

NextPath == Resolve \/ ResolveAgain
SpecPath == InitPath /\ [][NextPath]_vars

\* ------------------------------------------------------------------ claims
\* session s has just read a command with verb in V
Reads(s, V) == ncmds'[s] = ncmds[s] + 1 /\ cmd'[s].verb \in V
Replied(s, text) == replies[s] # <<>> /\ Last(replies[s]) = text
OwnListener(s) == \E l \in listeners : l.owner = s

\* C1: when a session whose client has connected to the port of its own 227
\* reply has replied 226 to a RETR, that client has received exactly the bytes
\* of the file the RETR opened.
C1_OwnFileToOwnClient ==
    \A s \in Sessions :
        (/\ pc[s] = "read"
         /\ cmd[s].verb = "RETR"
         /\ Replied(s, "226 Transfer complete.")
         /\ nconn[s] > 0
         /\ announced[s] = 0)
            => recv[s] = f[s].data

\* C2: an RNTO read on a session with no pending RNFR of its own replies 503
\* and leaves the filesystem unchanged.
C2_RntoNeedsOwnRnfr ==
    [][\A s \in Sessions :
        (Reads(s, {"RNTO"}) /\ ~ownRnfr[s])
            => (replies'[s] = <<"503 Bad sequence of commands.">> /\ fs' = fs)]_vars

\* C3: a LIST, RETR or STOR read while the session has no passive listener open
\* replies "425 Use PASV first." and changes nothing.
C3_NoPasvNoAction ==
    [][\A s \in Sessions :
        (Reads(s, {"LIST", "RETR", "STOR"}) /\ ~OwnListener(s))
            => /\ replies'[s] = <<"425 Use PASV first.">>
               /\ pc'[s] = "read"
               /\ UNCHANGED <<fs, current_dir, rename_from, chanVars>>]_vars

\* the STOR that session s read last has opened, or tried to open, its temporary file
StorRan(s) ==
    /\ cmd[s].verb = "STOR"
    /\ cmd[s].arg # None
    /\ \/ pc[s] \in {"stor_loop", "stor_close"}
       \/ pc[s] = "read" /\ (Replied(s, "550 Failed.") \/ Replied(s, "226 Transfer complete."))
Target(s) == get_full_path(current_dir, cmd[s].arg)

\* C4: after a STOR has replied 550 for an error in reading the data or writing
\* the temporary file, a target that existed is as it was and <target>.tmp
\* does not exist.
C4_FailedStorLeavesTarget ==
    \A s \in Sessions :
        (StorRan(s) /\ pc[s] = "read" /\ Replied(s, "550 Failed.")
           /\ storErr[s] \in {"read", "write"})
            => /\ storPre[s].kind # "absent" => EntryAt(fs, Target(s)) = storPre[s]
               /\ (Target(s) \o TMP) \notin DOMAIN fs

\* a STOR onto an existing file failed in writing after part of a two-byte upload
C4_Witness ==
    \E s \in Sessions :
        /\ StorRan(s) /\ pc[s] = "read" /\ Replied(s, "550 Failed.")
        /\ storErr[s] = "write"
        /\ storPre[s] = File(<<1, 2, 3>>)
        /\ Len(upload[s]) = 2
        /\ outq[s] = <<>>

\* C5: during and after a STOR the target is as it was before the STOR or
\* holds the complete upload.
C5_AllOrNothing ==
    \A s \in Sessions :
        StorRan(s) => EntryAt(fs, Target(s)) \in {storPre[s], File(upload[s])}

\* C6: a task never ends with its control connection open and the command it
\* read unanswered.
C6_ReplyOrClose ==
    \A s \in Sessions : pc[s] = "dead" => replies[s] # <<>>

\* C7: when a session is closed, no listener it opened and no data connection
\* accepted by such a listener is open.
C7_ClosedMeansTornDown ==
    \A s \in Sessions :
        pc[s] = "closed"
            => /\ \A l \in listeners : l.owner # s
               /\ \A c \in dataOpen : c.via # s

\* the path CWD's argument resolves to
Resolved(arg) == get_full_path(current_dir, IF Truthy(arg) THEN arg ELSE <<SEP>>)

\* C8: a CWD whose resolved path does not stat replies "550 Failed." and leaves
\* current_dir as it is; current_dir changes only in a CWD whose resolved path
\* stats, and to that path.
C8_CwdOnlyOnStat ==
    [][/\ \A s \in Sessions :
            (Reads(s, {"CWD"}) /\ ~StatOk(fs, rootAlias, Resolved(cmd'[s].arg)))
                => (replies'[s] = <<"550 Failed.">> /\ current_dir' = current_dir)
       /\ current_dir' # current_dir
            => \E s \in Sessions :
                 /\ Reads(s, {"CWD"})
                 /\ StatOk(fs, rootAlias, Resolved(cmd'[s].arg))
                 /\ current_dir' = Resolved(cmd'[s].arg)]_vars

\* CWD d has succeeded and a CWD x after it has failed
C8_Witness ==
    \E s \in Sessions :
        /\ cmd[s] = [verb |-> "CWD", arg |-> <<"x">>]
        /\ replies[s] = <<"550 Failed.">>
        /\ current_dir = <<SEP, "d">>

\* C9: resolving an absolute argument's result again gives the same path.
C9_Idempotent ==
    (r_pc = "twice" /\ StartsWithSep(r_arg)) => r_out2 = r_out

Normalized(p) ==
    /\ p # <<>>
    /\ p[1] = SEP
    /\ \A i \in 1..(Len(p) - 1) : ~(p[i] = SEP /\ p[i + 1] = SEP)
    /\ p[Len(p)] = SEP => p = <<SEP>>

\* C10: every resolved path is normalized: non-empty, absolute, without
\* adjacent separators, without a trailing separator unless it is the root.
C10_Normalized ==
    r_pc \in {"once", "twice"} => Normalized(r_out)

\* the replies that announce a transfer and are followed by a final one
Preliminary ==
    {"150 Here comes the directory listing.", "150 Opening data connection.",
     "150 Ok to send data."}
Answered(s) == replies[s] # <<>> /\ Last(replies[s]) \notin Preliminary
DataVerbs == {"LIST", "RETR", "STOR"}

\* C11: a session reads a control line only when it is at readline and the
\* final reply of the command before has been sent.
C11_OneAtATime ==
    [][\A s \in Sessions :
        ncmds'[s] # ncmds[s] => (pc[s] = "read" /\ Answered(s))]_vars

\* a PWD has been read and answered after a RETR that delivered the whole of file a
C11_Witness ==
    /\ pc[1] = "read"
    /\ cmd[1].verb = "PWD"
    /\ ncmds[1] = 3
    /\ recv[1] = <<1, 2, 3>>
    /\ replies[1] = <<"257 \"/\"">>

\* C12: a session that has sent no CWD is told "/" by PWD, whatever other
\* sessions do.
C12_OwnDirectory ==
    \A s \in Sessions :
        (ncmds[s] = 1 /\ cmd[s].verb = "PWD" /\ replies[s] # <<>>)
            => replies[s] = <<"257 \"/\"">>

\* C13: a data command waiting for its peer has slept fewer than PASV_RETRIES
\* times, every return of the sleep counts one more, when the wait ends with
\* no peer the reply is 425 and the session is back at readline, and every
\* wait ends.
C13_BoundedWait ==
    /\ [][\A s \in Sessions :
         pc[s] = "wait" =>
            /\ tries[s] < PASV_RETRIES
            /\ (pc'[s] = "wait" /\ tries'[s] # tries[s]) => tries'[s] = tries[s] + 1
            /\ (pc'[s] # "wait" /\ pasv_writer = NoConn)
                  => /\ tries[s] = PASV_RETRIES - 1
                     /\ pc'[s] = "read"
                     /\ replies'[s] = <<"425 Data connection failed.">>]_vars
    /\ \A s \in Sessions : (pc[s] = "wait") ~> (pc[s] # "wait")

\* a LIST, RETR or STOR after a PASV nobody connected to has replied 425
C13_Witness ==
    /\ pc[1] = "read"
    /\ cmd[1].verb \in DataVerbs
    /\ ncmds[1] = 2
    /\ nconn[1] = 0
    /\ replies[1] = <<"425 Data connection failed.">>

\* C14: after "425 Data connection failed." the session has no listener open.
C14_TimeoutClosesChannel ==
    \A s \in Sessions :
        (pc[s] = "read" /\ Replied(s, "425 Data connection failed."))
            => (~OwnListener(s) /\ pasv_server = NoListener)

\* C15: no task ends other than by QUIT or by the end of the control stream.
C15_FailureKeepsSession ==
    \A s \in Sessions : pc[s] # "dead"

OwnListeners(ls, s) == {l \in ls : l.owner = s}

C19_FirstPeerOnly ==
    [][(pasv_writer # NoConn /\ pasv_writer' # NoConn) => pasv_writer' = pasv_writer]_vars

\* C17: PASV, STOR of a name, PASV, RETR of the same name, both transfers
\* replying 226: the client has received exactly the bytes it uploaded.
C17_RoundTrip ==
    \A s \in Sessions :
        (/\ pc[s] = "read"
         /\ ncmds[s] = 4
         /\ cmd[s].verb = "RETR"
         /\ cmd[s].arg # None
         /\ Replied(s, "226 Transfer complete.")
         /\ full_path[s] = get_full_path(current_dir, cmd[s].arg \o TMP)
         /\ storErr[s] = "none")
            => recv[s] = upload[s]

\* three bytes, more than one chunk and not a whole number of chunks, have
\* made the round trip
C17_Witness ==
    /\ pc[1] = "read"
    /\ ncmds[1] = 4
    /\ cmd[1] = [verb |-> "RETR", arg |-> <<"c">>]
    /\ Replied(1, "226 Transfer complete.")
    /\ full_path[1] = <<SEP, "c">> \o TMP
    /\ storErr[1] = "none"
    /\ upload[1] = <<5, 6, 7>>
    /\ recv[1] = <<5, 6, 7>>
    /\ CHUNK_SIZE < 3

\* the lines a listing of `names` consists of: one for each name that stats
RECURSIVE LinesFor(_)
LinesFor(names) ==
    IF names = <<>> THEN <<>>
    ELSE IF StatOk(fs, rootAlias, get_full_path(current_dir, Head(names)))
         THEN <<ListLine(Head(names))>> \o LinesFor(Tail(names))
         ELSE LinesFor(Tail(names))

\* C18: a LIST that has ended after its 150 has, when the directory can be
\* enumerated, sent one line for each entry that stats, in enumeration order,
\* closed the data connection and replied 226; it has replied 550 only when
\* the enumeration failed.
C18_ListLines ==
    \A s \in Sessions :
        (/\ pc[s] = "read"
         /\ cmd[s].verb = "LIST"
         /\ replies[s] # <<>>
         /\ replies[s][1] = "150 Here comes the directory listing.")
            => IF ListDirOk(fs, rootAlias, current_dir)
               THEN /\ replies[s] = <<"150 Here comes the directory listing.",
                                      "226 Directory send OK.">>
                    /\ listing[s] = LinesFor(ListDir(fs, rootAlias, current_dir))
                    /\ pasv_writer = NoConn
                    /\ \A c \in dataOpen : c.via # s
               ELSE replies[s] = <<"150 Here comes the directory listing.", "550 Failed.">>

\* the root has been listed: four names, three lines, the link passed over
C18_Witness ==
    /\ pc[1] = "read"
    /\ cmd[1].verb = "LIST"
    /\ Replied(1, "226 Directory send OK.")
    /\ Len(ListDir(fs, rootAlias, current_dir)) = 4
    /\ Len(listing[1]) = 3

FinalOfTransfer == {"226 Directory send OK.", "226 Transfer complete.", "550 Failed."}

C21_RntoClearsSource ==
    [][/\ \A s \in Sessions :
           /\ (Reads(s, {"RNTO"}) /\ Truthy(rename_from))
                 => /\ rename_from' = None
                    /\ replies'[s] \in {<<"250 File renamed.">>, <<"550 Rename failed.">>}
           /\ (Reads(s, {"RNTO"}) /\ cmd[s].verb = "RNTO")
                 => /\ replies'[s] = <<"503 Bad sequence of commands.">>
                    /\ fs' = fs
           /\ (Reads(s, {"RNFR"}) /\ replies'[s] = <<"550 File not found.">>)
                 => rename_from' = rename_from
       /\ (Truthy(rename_from') /\ rename_from' # rename_from)
             => \E s \in Sessions :
                    /\ Reads(s, {"RNFR"})
                    /\ replies'[s] = <<"350 Ready for destination name.">>
                    /\ StatOk(fs, rootAlias, rename_from')]_vars

\* RNFR a, RNTO c renamed the file, and the RNTO after it was refused
C21_Witness ==
    /\ pc[1] = "read"
    /\ ncmds[1] = 3
    /\ cmd[1].verb = "RNTO"
    /\ replies[1] = <<"503 Bad sequence of commands.">>
    /\ rename_from = None
    /\ <<SEP, "a">> \notin DOMAIN fs
    /\ EntryAt(fs, <<SEP, "c">>) = File(<<1, 2, 3>>)

====
